---------------------------- MODULE Spec2Model ----------------------------
(***************************************************************************)
(* Model of mmcif.api.DataCategoryTyped: the dictionary-driven casting     *)
(* pass (applyTypes), the string normalisation (applyStringTypes), the     *)
(* type query (getAttributeInfo) and the tolerance-aware comparison        *)
(* (cmpAttributeValues with __isClose).                                    *)
(*                                                                         *)
(* Representation.  A cell is a record [k, s, n]: k is the Python type of  *)
(* the value ("none", "str", "int", "float"), s the characters of a str,   *)
(* n the number of an int, or of a float in units of 1/Scale (floats are   *)
(* exact decimals with at most five fractional digits; binary rounding is  *)
(* not modelled).  Text is a sequence of one-character strings, so that    *)
(* int(), float() and str() are computed by scanning and formatting.       *)
(***************************************************************************)
EXTENDS Integers, Sequences, FiniteSets, TLC

VARIABLES
    attrs,            \* self.getAttributeList(): the ordered column names
    src,              \* dataCategoryObj.data: the rows of the source table
    data,             \* self.data: the rows of the typed table
    dApi,             \* self.__dApi: the answers of the dictionary, per column
    copyInputData,    \* constructor argument
    raiseExceptions,  \* self._raiseExceptions
    attributeTypeD,   \* self.__attributeTypeD, a set of <<atName, dataType>>
    phase,            \* "new" | "typed" | "failed" (the constructor raised)
    other,            \* dcObj of cmpAttributeValues: [attrs, data]
    ret               \* the last call: its arguments and what it returned
                      \* (again: it repeated applyStringTypes)

vars == <<attrs, src, data, dApi, copyInputData, raiseExceptions,
          attributeTypeD, phase, other, ret>>

---------------------------------------------------------------------------
(* Python values *)

None == [k |-> "none", s |-> <<>>, n |-> 0]
Str(chars) == [k |-> "str", s |-> chars, n |-> 0]
IntV(i) == [k |-> "int", s |-> <<>>, n |-> i]
FloatV(u) == [k |-> "float", s |-> <<>>, n |-> u]

Scale == 10 ^ 5

Abs(i) == IF i < 0 THEN 0 - i ELSE i
Max(i, j) == IF i >= j THEN i ELSE j

Digits == {"0", "1", "2", "3", "4", "5", "6", "7", "8", "9"}
DigitVal(c) ==
    CASE c = "0" -> 0 [] c = "1" -> 1 [] c = "2" -> 2 [] c = "3" -> 3
      [] c = "4" -> 4 [] c = "5" -> 5 [] c = "6" -> 6 [] c = "7" -> 7
      [] c = "8" -> 8 [] c = "9" -> 9
DigitChar(d) == <<"0", "1", "2", "3", "4", "5", "6", "7", "8", "9">>[d + 1]

\* ord(c) for the characters the model's texts are made of
Ord(c) ==
    CASE c = "-" -> 45 [] c = "." -> 46 [] c = "?" -> 63
      [] c \in Digits -> 48 + DigitVal(c)
      [] c = "A" -> 65 [] c = "N" -> 78
      [] c = "a" -> 97 [] c = "b" -> 98
      [] OTHER -> 122

AllDigits(chars) == \A i \in 1..Len(chars) : chars[i] \in Digits

RECURSIVE DigitsVal(_)
DigitsVal(chars) ==
    IF chars = <<>> THEN 0
    ELSE 10 * DigitsVal(SubSeq(chars, 1, Len(chars) - 1)) + DigitVal(chars[Len(chars)])

RECURSIVE NatChars(_)
NatChars(i) ==
    IF i < 10 THEN <<DigitChar(i)>>
    ELSE Append(NatChars(i \div 10), DigitChar(i % 10))

HasSign(chars) == chars # <<>> /\ chars[1] \in {"-", "+"}
Unsigned(chars) == IF HasSign(chars) THEN Tail(chars) ELSE chars
Signed(chars, i) == IF HasSign(chars) /\ chars[1] = "-" THEN 0 - i ELSE i

\* int(text): an optional sign and at least one digit, nothing else
IntTextOk(chars) == Unsigned(chars) # <<>> /\ AllDigits(Unsigned(chars))
IntOfText(chars) == Signed(chars, DigitsVal(Unsigned(chars)))

\* float(text): an optional sign, digits with at most one "." among them and
\* at least one digit
DotAt(chars) ==
    IF \E i \in 1..Len(chars) : chars[i] = "."
    THEN CHOOSE i \in 1..Len(chars) :
            chars[i] = "." /\ \A j \in 1..(i - 1) : chars[j] # "."
    ELSE Len(chars) + 1
WholePart(chars) == SubSeq(chars, 1, DotAt(chars) - 1)
FracPart(chars) == SubSeq(chars, DotAt(chars) + 1, Len(chars))
FloatTextOk(chars) ==
    LET u == Unsigned(chars)
    IN  /\ AllDigits(WholePart(u))
        /\ AllDigits(FracPart(u))
        /\ Len(WholePart(u)) + Len(FracPart(u)) >= 1
RECURSIVE PadRight(_, _)
PadRight(chars, len) ==
    IF Len(chars) >= len THEN SubSeq(chars, 1, len) ELSE PadRight(Append(chars, "0"), len)
FloatOfText(chars) ==
    LET u == Unsigned(chars)
    IN  Signed(chars, DigitsVal(WholePart(u)) * Scale + DigitsVal(PadRight(FracPart(u), 5)))

\* str(int) and str(float) (repr: the shortest fraction, at least one digit)
RECURSIVE StripZeros(_)
StripZeros(chars) ==
    IF Len(chars) > 1 /\ chars[Len(chars)] = "0"
    THEN StripZeros(SubSeq(chars, 1, Len(chars) - 1))
    ELSE chars
RECURSIVE PadLeft(_, _)
PadLeft(chars, len) == IF Len(chars) >= len THEN chars ELSE PadLeft(<<"0">> \o chars, len)
TextOfInt(i) == IF i < 0 THEN <<"-">> \o NatChars(0 - i) ELSE NatChars(i)
TextOfFloat(u) ==
    (IF u < 0 THEN <<"-">> ELSE <<>>)
        \o NatChars(Abs(u) \div Scale) \o <<".">>
        \o StripZeros(PadLeft(NatChars(Abs(u) % Scale), 5))

---------------------------------------------------------------------------
(* self.__castD = {"integer": int, "float": float, "string": str}.  A cast  *)
(* yields [ok, v]; ok = FALSE is the exception int() or float() raises.    *)

Raises == [ok |-> FALSE, v |-> None]
Value(v) == [ok |-> TRUE, v |-> v]

PyInt(v) ==
    CASE v.k = "int" -> Value(v)
      [] v.k = "float" ->  \* truncation towards zero
            Value(IntV(IF v.n < 0 THEN 0 - (Abs(v.n) \div Scale) ELSE v.n \div Scale))
      [] v.k = "str" -> IF IntTextOk(v.s) THEN Value(IntV(IntOfText(v.s))) ELSE Raises
      [] OTHER -> Raises

PyFloat(v) ==
    CASE v.k = "float" -> Value(v)
      [] v.k = "int" -> Value(FloatV(v.n * Scale))
      [] v.k = "str" -> IF FloatTextOk(v.s) THEN Value(FloatV(FloatOfText(v.s))) ELSE Raises
      [] OTHER -> Raises

PyStr(v) ==
    CASE v.k = "str" -> Value(v)
      [] v.k = "int" -> Value(Str(TextOfInt(v.n)))
      [] v.k = "float" -> Value(Str(TextOfFloat(v.n)))
      [] OTHER -> Value(Str(<<"N", "o", "n", "e">>))

castD(dataType, v) ==
    CASE dataType = "integer" -> PyInt(v)
      [] dataType = "float" -> PyFloat(v)
      [] OTHER -> PyStr(v)

INAPPLICABLE == Str(<<".">>)
UNKNOWN == Str(<<"?">>)
\* row[ii] is None or row[ii] in [".", "?"]
IsMissing(v) == v = None \/ v \in {INAPPLICABLE, UNKNOWN}

---------------------------------------------------------------------------
(* The dictionary (self.__dApi) answers, per column, with a type code, a   *)
(* primitive code and a mandatory code, or fails (err): no dictionary was  *)
(* given, or the column is unknown to it and the code's own test,          *)
(* "int" in cifDataType, raises on the answer.                             *)

Answer(typeCode, primitive, mandatory) ==
    [err |-> FALSE, typeCode |-> typeCode, primitive |-> primitive, mandatory |-> mandatory]
NoAnswer == [err |-> TRUE, typeCode |-> <<>>, primitive |-> "", mandatory |-> ""]

difficult_attributes ==
    {"concentration_range", "pdb_chain_residue_range", "axial_symmetry",
     "point_symmetry", "used_frames_per_image", "temperature", "pH"}

\* sub in chars, Python's substring test
Contains(sub, chars) ==
    \E i \in 1..(Len(chars) - Len(sub) + 1) : SubSeq(chars, i, i + Len(sub) - 1) = sub

MandatoryCodes == {"yes", "implicit", "implicit-ordinal"}

\* line 234: the classification of the dictionary's answer
ClassifiedType(cifDataType, cifPrimitiveType) ==
    IF Contains(<<"i", "n", "t">>, cifDataType) THEN "integer"
    ELSE IF cifPrimitiveType = "numb" THEN "float"
    ELSE "string"

\* ResolvedType with the difficult list ignored
ResolvedType_nolist(atName, dataType) == dataType

\* lines 235-239: the override for the columns known to defeat casting
ResolvedType(atName, dataType) ==
    IF atName \in difficult_attributes THEN "string" ELSE dataType

\* [ok, dataType, isMandatory]; ok = FALSE: the lookup raised
__getAttributeInfo(atName, api) ==
    IF atName \notin DOMAIN api \/ api[atName].err
    THEN [ok |-> FALSE, dataType |-> "", isMandatory |-> FALSE]
    ELSE [ok |-> TRUE,
          dataType |-> ResolvedType(atName,
                          ClassifiedType(api[atName].typeCode, api[atName].primitive)),
          isMandatory |-> api[atName].mandatory \in MandatoryCodes]

\* getAttributeInfo: (dataType, mandatoryCode), or (None, None) on any failure
getAttributeInfo(atName, api) ==
    LET r == __getAttributeInfo(atName, api)
    IN  IF r.ok THEN [known |-> TRUE, dataType |-> r.dataType, isMandatory |-> r.isMandatory]
        ELSE [known |-> FALSE, dataType |-> "", isMandatory |-> FALSE]

---------------------------------------------------------------------------
(* applyTypes *)

\* the keyword arguments of applyTypes
CastArgs(ign, cif, mStr, mInt, mFloat) ==
    [ignoreCastErrors |-> ign, useCifUnknowns |-> cif, missingValueString |-> mStr,
     missingValueInteger |-> mInt, missingValueFloat |-> mFloat]

\* lines 99 and 101
MissingValue(dataType, isMandatory, args) ==
    LET byType == IF dataType = "integer" THEN args.missingValueInteger
                  ELSE IF dataType \in {"integer", "float"} THEN args.missingValueFloat
                  ELSE args.missingValueString
    IN  IF ~args.useCifUnknowns THEN byType
        ELSE IF isMandatory THEN INAPPLICABLE ELSE UNKNOWN

\* lines 103-108: one cell; failed = the cast raised
CastCell(v, dataType, missingValue) ==
    IF ~IsMissing(v)
    THEN LET c == castD(dataType, v)
         IN  IF c.ok THEN [v |-> c.v, failed |-> FALSE]
             ELSE [v |-> missingValue, failed |-> TRUE]
    ELSE [v |-> missingValue, failed |-> FALSE]

\* lines 102-108: every row of column ii
CastColumn(rows, ii, dataType, missingValue) ==
    [r \in 1..Len(rows) |->
        [rows[r] EXCEPT ![ii] = CastCell(rows[r][ii], dataType, missingValue).v]]
ColumnCastFails(rows, ii, dataType) ==
    \E r \in 1..Len(rows) : CastCell(rows[r][ii], dataType, None).failed

\* self.__attributeTypeD[atName] = dataType
SetType(typeD, atName, dataType) ==
    {p \in typeD : p[1] # atName} \cup {<<atName, dataType>>}

\* lines 94-117, from column ii on.  st = [data, typeD, ok, err, logged]: err is
\* an exception reaching the outer handler, logged a logger.error of a cast.
RECURSIVE applyTypesFrom(_, _, _, _, _)
applyTypesFrom(ii, atNames, api, args, st) ==
    IF ii > Len(atNames) THEN st
    ELSE LET info == __getAttributeInfo(atNames[ii], api)
             mv == MissingValue(info.dataType, info.isMandatory, args)
         IN  IF ~info.ok THEN [st EXCEPT !.err = TRUE]
             ELSE applyTypesFrom(ii + 1, atNames, api, args,
                    [data |-> CastColumn(st.data, ii, info.dataType, mv),
                     typeD |-> SetType(st.typeD, atNames[ii], info.dataType),
                     ok |-> TRUE,
                     err |-> FALSE,
                     logged |-> st.logged \/ (~args.ignoreCastErrors
                                    /\ ColumnCastFails(st.data, ii, info.dataType))])

applyTypes(atNames, rows, typeD, api, args) ==
    applyTypesFrom(1, atNames, api, args,
        [data |-> rows, typeD |-> typeD, ok |-> FALSE, err |-> FALSE, logged |-> FALSE])

---------------------------------------------------------------------------
(* applyStringTypes *)

\* StringCell with repr() in place of str(): a str gains quotes
StringCell_repr(v, isMandatory) ==
    IF IsMissing(v) THEN (IF isMandatory THEN INAPPLICABLE ELSE UNKNOWN)
    ELSE IF v.k = "str" THEN Str(<<"'">> \o v.s \o <<"'">>)
    ELSE castD("string", v).v

\* lines 150-153: one cell
StringCell(v, isMandatory) ==
    IF IsMissing(v) THEN (IF isMandatory THEN INAPPLICABLE ELSE UNKNOWN)
    ELSE castD("string", v).v

StringColumn(rows, ii, isMandatory) ==
    [r \in 1..Len(rows) |-> [rows[r] EXCEPT ![ii] = StringCell(rows[r][ii], isMandatory)]]

RECURSIVE applyStringTypesFrom(_, _, _, _)
applyStringTypesFrom(ii, atNames, api, st) ==
    IF ii > Len(atNames) THEN st
    ELSE LET info == __getAttributeInfo(atNames[ii], api)
         IN  IF ~info.ok THEN [st EXCEPT !.err = TRUE]
             ELSE applyStringTypesFrom(ii + 1, atNames, api,
                    [data |-> StringColumn(st.data, ii, info.isMandatory),
                     typeD |-> SetType(st.typeD, atNames[ii], "string"),
                     ok |-> TRUE,
                     err |-> FALSE,
                     logged |-> FALSE])

applyStringTypes(atNames, rows, typeD, api) ==
    applyStringTypesFrom(1, atNames, api,
        [data |-> rows, typeD |-> typeD, ok |-> FALSE, err |-> FALSE, logged |-> FALSE])

---------------------------------------------------------------------------
(* The table interface the class inherits from DataCategory *)

getRowCount(rows) == Len(rows)

IndexOf(atNames, atName) == CHOOSE i \in 1..Len(atNames) : atNames[i] = atName

\* getAttributeValueList(atName): the column's values, in row order
getAttributeValueList(atNames, rows, atName) ==
    [r \in 1..Len(rows) |-> rows[r][IndexOf(atNames, atName)]]

\* The constructor of DataCategory: with copyInputData the rows are deep-copied,
\* without it self.data is the caller's list itself.
SharesStorage(copyFlag) == ~copyFlag

\* SuperCopyArg with the caller's choice lost
SuperCopyArg_false(copyFlag) == FALSE

\* lines 65-71: the flag the subclass hands to the constructor of DataCategory
SuperCopyArg(copyFlag) == copyFlag

\* what the source table holds once self.data has become newData
SourceAfter(copyFlag, oldSrc, newData) ==
    IF SharesStorage(SuperCopyArg(copyFlag)) THEN newData ELSE oldSrc

---------------------------------------------------------------------------
(* Python's ==, < and sorted() on cell values *)

IsNum(v) == v.k \in {"int", "float"}
NumVal(v) == IF v.k = "int" THEN v.n * Scale ELSE v.n

PyEq(a, b) ==
    CASE a.k = "none" /\ b.k = "none" -> TRUE
      [] a.k = "str" /\ b.k = "str" -> a.s = b.s
      [] IsNum(a) /\ IsNum(b) -> NumVal(a) = NumVal(b)
      [] OTHER -> FALSE

ListEq(aL, bL) == Len(aL) = Len(bL) /\ \A i \in 1..Len(aL) : PyEq(aL[i], bL[i])

RECURSIVE TextLess(_, _)
TextLess(x, y) ==
    IF x = <<>> THEN y # <<>>
    ELSE IF y = <<>> THEN FALSE
    ELSE IF Ord(x[1]) # Ord(y[1]) THEN Ord(x[1]) < Ord(y[1])
    ELSE TextLess(Tail(x), Tail(y))

\* a < b for two values sorted() can order
PyLess(a, b) == IF a.k = "str" THEN TextLess(a.s, b.s) ELSE NumVal(a) < NumVal(b)

\* sorted() raises TypeError unless all values are str or all are numbers: it
\* compares every value with another one, and None orders with nothing
Sortable(vL) ==
    \/ Len(vL) <= 1
    \/ \A i \in 1..Len(vL) : vL[i].k = "str"
    \/ \A i \in 1..Len(vL) : IsNum(vL[i])

RECURSIVE Insert(_, _)
Insert(sortedL, v) ==
    IF sortedL = <<>> THEN <<v>>
    ELSE IF PyLess(v, sortedL[Len(sortedL)])
         THEN Append(Insert(SubSeq(sortedL, 1, Len(sortedL) - 1), v), sortedL[Len(sortedL)])
         ELSE Append(sortedL, v)

RECURSIVE sorted(_)
sorted(vL) ==
    IF Len(vL) <= 1 THEN vL
    ELSE Insert(sorted(SubSeq(vL, 1, Len(vL) - 1)), vL[Len(vL)])

---------------------------------------------------------------------------
(* __isClose and cmpAttributeValues *)

\* 1 / floatRelTolerance (line 182) and floatAbsTolerance (line 183) in units
\* of 1 / Scale
RelTolInv == 10 ^ 5
AbsTol == Scale \div (10 ^ 4)

\* lines 242-250.  [ok, v]; ok = FALSE is the ValueError
__isClose(aV, bV) ==
    IF aV = None /\ bV = None THEN [ok |-> TRUE, v |-> TRUE]
    ELSE IF aV # None /\ bV # None /\ PyEq(aV, bV) THEN [ok |-> TRUE, v |-> TRUE]
    ELSE IF aV.k = "float" /\ bV.k = "float"
         THEN [ok |-> TRUE,
               \* relTol * max(|a|, |b|), rounded down to a whole unit: the
               \* difference is a whole number of units
               v |-> Abs(aV.n - bV.n)
                        <= Max(Max(Abs(aV.n), Abs(bV.n)) \div RelTolInv, AbsTol)]
    ELSE [ok |-> FALSE, v |-> FALSE]

\* The local variable same: unbound until a comparison assigns it.
Unbound == [bound |-> FALSE, v |-> FALSE]
Bound(b) == [bound |-> TRUE, v |-> b]

\* FloatLoop without the break: the last pair decides
RECURSIVE FloatLoop_nobreak(_, _, _, _)
FloatLoop_nobreak(i, aL, bL, same) ==
    IF i > Len(aL) \/ i > Len(bL) THEN [err |-> FALSE, same |-> same]
    ELSE LET c == __isClose(aL[i], bL[i])
         IN  IF ~c.ok THEN [err |-> TRUE, same |-> same]
             ELSE FloatLoop_nobreak(i + 1, aL, bL, Bound(c.v))

\* lines 204-207 and 209-213: the loop over zip(aL, bL) from pair i on;
\* [err, same], err = an exception left the loop
RECURSIVE FloatLoop(_, _, _, _)
FloatLoop(i, aL, bL, same) ==
    IF i > Len(aL) \/ i > Len(bL) THEN [err |-> FALSE, same |-> same]
    ELSE LET c == __isClose(aL[i], bL[i])
         IN  IF ~c.ok THEN [err |-> TRUE, same |-> same]
             ELSE IF ~c.v THEN [err |-> FALSE, same |-> Bound(FALSE)]
             ELSE FloatLoop(i + 1, aL, bL, Bound(TRUE))

\* lines 194-213: one column; [err, same]
CompareColumn(dataType, aVL, bVL, ignoreOrder, same) ==
    IF dataType \in {"string", "integer"}
    THEN IF ignoreOrder
         THEN IF Sortable(aVL) /\ Sortable(bVL)
              THEN [err |-> FALSE, same |-> Bound(ListEq(sorted(aVL), sorted(bVL)))]
              ELSE [err |-> TRUE, same |-> same]
         ELSE [err |-> FALSE, same |-> Bound(ListEq(aVL, bVL))]
    ELSE IF dataType \in {"float"}
    THEN IF ignoreOrder
         THEN IF Sortable(aVL) /\ Sortable(bVL)
              THEN FloatLoop(1, sorted(aVL), sorted(bVL), same)
              ELSE [err |-> TRUE, same |-> same]
         ELSE FloatLoop(1, aVL, bVL, same)
    ELSE [err |-> FALSE, same |-> same]

\* lines 193-214 from the k-th common column on; st = [rL, same, err]
RECURSIVE cmpFrom(_, _, _, _, _, _, _, _, _)
cmpFrom(k, comList, atNames, rows, api, dcAttrs, dcRows, ignoreOrder, st) ==
    IF k > Len(comList) THEN st
    ELSE LET atName == comList[k]
             info == __getAttributeInfo(atName, api)
             c == CompareColumn(info.dataType,
                                getAttributeValueList(atNames, rows, atName),
                                getAttributeValueList(dcAttrs, dcRows, atName),
                                ignoreOrder, st.same)
         IN  IF ~info.ok \/ c.err \/ ~c.same.bound
             THEN [st EXCEPT !.err = TRUE]
             ELSE cmpFrom(k + 1, comList, atNames, rows, api, dcAttrs, dcRows, ignoreOrder,
                          [rL |-> Append(st.rL, <<atName, c.same.v>>),
                           same |-> c.same, err |-> FALSE])

\* lenEq with the row counts never compared
lenEq_always(rows, dcRows) == TRUE

\* line 189
lenEq(rows, dcRows) == getRowCount(rows) = getRowCount(dcRows)

\* lines 181-220.  comList is list(sa & sb), in the order the set yields it.
\* [rL, raised, err]: err = an exception reached the handler of line 217
cmpAttributeValues(atNames, rows, api, raiseFlag, dcAttrs, dcRows, ignoreOrder, comList) ==
    IF ~lenEq(rows, dcRows)
    THEN [rL |-> [k \in 1..Len(comList) |-> <<comList[k], FALSE>>],
          raised |-> FALSE, err |-> FALSE]
    ELSE LET st == cmpFrom(1, comList, atNames, rows, api, dcAttrs, dcRows, ignoreOrder,
                           [rL |-> <<>>, same |-> Unbound, err |-> FALSE])
         IN  [rL |-> st.rL, raised |-> st.err /\ raiseFlag, err |-> st.err]

Range(f) == {f[i] : i \in DOMAIN f}
\* the orders list(sa & sb) can have
ComLists(atNames, dcAttrs) ==
    LET com == Range(atNames) \cap Range(dcAttrs)
    IN  {l \in [1..Cardinality(com) -> com] : Range(l) = com}

---------------------------------------------------------------------------
(* Inputs *)

MaxRows == 1
MaxCmpRows == 2

Chars_int == <<"i", "n", "t">>
Chars_positive_int == <<"p", "o", "s", "i", "t", "i", "v", "e", "_", "i", "n", "t">>
Chars_float == <<"f", "l", "o", "a", "t">>
Chars_code == <<"c", "o", "d", "e">>
Chars_point_group == <<"p", "o", "i", "n", "t", "_", "g", "r", "o", "u", "p">>

\* A dictionary: two numeric mandatory/optional columns of each kind, a text
\* column, a column of the difficult list, and a column it does not know.
Dictionary ==
    [a \in {"id", "n", "x", "y", "name", "temperature", "bad"} |->
        CASE a = "id" -> Answer(Chars_int, "numb", "yes")
          [] a = "n" -> Answer(Chars_positive_int, "numb", "no")
          [] a = "x" -> Answer(Chars_float, "numb", "no")
          [] a = "y" -> Answer(Chars_float, "numb", "implicit")
          [] a = "name" -> Answer(Chars_code, "char", "no")
          [] a = "temperature" -> Answer(Chars_float, "numb", "yes")
          [] OTHER -> NoAnswer]

\* the attribute lists of the tables that get typed
Schemas ==
    {<<"id", "x">>, <<"n", "bad", "y">>, <<"bad", "id">>, <<"temperature", "name">>}

T_3 == Str(<<"3">>)
T_1p5 == Str(<<"1", ".", "5">>)
T_ab == Str(<<"a", "b">>)
T_1p0 == Str(<<"1", ".", "0">>)
T_1p00005 == Str(<<"1", ".", "0", "0", "0", "0", "5">>)
T_NA == Str(<<"N", "A">>)

\* raw cells: absent, the two markers, castable and uncastable text
RawCells == {None, INAPPLICABLE, UNKNOWN, T_3, T_1p5, T_ab}
\* the cells of the two compared tables: 1.0 and 1.00005 are close and not
\* equal, 3 is equal to 3 and far from both
CmpCellsA == {None, T_1p0, T_3}
CmpCellsB == {None, T_1p00005, T_3}

\* the raw tables over atNames with at most maxRows rows; a row carries one
\* text in all of its columns, so every column type meets every text
RawTables(atNames, cells, maxRows) ==
    UNION {{[r \in 1..m |-> [i \in 1..Len(atNames) |-> f[r]]] : f \in [1..m -> cells]}
            : m \in 0..maxRows}

MissingChoices == {<<None, None, None>>, <<T_NA, IntV(0 - 1), FloatV(0 - Scale)>>}
CallArgs ==
    {CastArgs(ign, TRUE, None, None, None) : ign \in BOOLEAN}
        \cup {CastArgs(ign, FALSE, m[1], m[2], m[3]) : ign \in BOOLEAN, m \in MissingChoices}

NoArgs == CastArgs(FALSE, TRUE, None, None, None)
NoInfo == [known |-> FALSE, dataType |-> "", isMandatory |-> FALSE]
NoOther == [attrs |-> <<>>, data |-> <<>>]
NoRet ==
    [op |-> "none", again |-> FALSE, raised |-> FALSE, err |-> FALSE, ok |-> FALSE, logged |-> FALSE,
     args |-> NoArgs, atName |-> "", info |-> NoInfo,
     rL |-> <<>>, ignoreOrder |-> FALSE, comList |-> <<>>]

---------------------------------------------------------------------------
(* The typed table's life: construction, then any calls *)

Init ==
    /\ attrs \in Schemas
    /\ src \in RawTables(attrs, RawCells, MaxRows)
    /\ data = <<>>
    /\ dApi = Dictionary
    /\ copyInputData = TRUE
    /\ raiseExceptions = TRUE
    /\ attributeTypeD = {}
    /\ phase = "new"
    /\ other = NoOther
    /\ ret = NoRet

\* __init__ (lines 64-82): the base constructor, then applyTypes.  When
\* applyTypes raises no object results, but shared rows stay as the pass left them.
Construct(raiseFlag, copyFlag, args) ==
    /\ phase = "new"
    /\ LET res == applyTypes(attrs, src, {}, dApi, args)
           raised == res.err /\ raiseFlag
       IN  /\ phase' = IF raised THEN "failed" ELSE "typed"
           /\ data' = IF raised THEN <<>> ELSE res.data
           /\ attributeTypeD' = IF raised THEN {} ELSE res.typeD
           /\ src' = SourceAfter(copyFlag, src, res.data)
           /\ ret' = [NoRet EXCEPT !.op = "init", !.raised = raised, !.err = res.err,
                                   !.ok = res.ok, !.logged = res.logged, !.args = args]
    /\ copyInputData' = copyFlag
    /\ raiseExceptions' = raiseFlag
    /\ UNCHANGED <<attrs, dApi, other>>

ApplyTypesCall(args) ==
    /\ phase = "typed"
    /\ LET res == applyTypes(attrs, data, attributeTypeD, dApi, args)
       IN  /\ data' = res.data
           /\ attributeTypeD' = res.typeD
           /\ src' = SourceAfter(copyInputData, src, res.data)
           /\ ret' = [NoRet EXCEPT !.op = "applyTypes", !.raised = res.err /\ raiseExceptions,
                                   !.err = res.err, !.ok = res.ok, !.logged = res.logged,
                                   !.args = args]
    /\ UNCHANGED <<attrs, dApi, copyInputData, raiseExceptions, phase, other>>

ApplyStringTypesCall ==
    /\ phase = "typed"
    /\ LET res == applyStringTypes(attrs, data, attributeTypeD, dApi)
       IN  /\ data' = res.data
           /\ attributeTypeD' = res.typeD
           /\ src' = SourceAfter(copyInputData, src, res.data)
           /\ ret' = [NoRet EXCEPT !.op = "applyStringTypes",
                                   !.again = (ret.op = "applyStringTypes"),
                                   !.raised = res.err /\ raiseExceptions,
                                   !.err = res.err, !.ok = res.ok]
    /\ UNCHANGED <<attrs, dApi, copyInputData, raiseExceptions, phase, other>>

GetAttributeInfoCall(atName) ==
    /\ phase = "typed"
    /\ ret' = [NoRet EXCEPT !.op = "getAttributeInfo", !.atName = atName,
                            !.info = getAttributeInfo(atName, dApi)]
    /\ UNCHANGED <<attrs, src, data, dApi, copyInputData, raiseExceptions,
                   attributeTypeD, phase, other>>

Next ==
    \/ \E raiseFlag \in BOOLEAN, copyFlag \in BOOLEAN, args \in CallArgs :
            Construct(raiseFlag, copyFlag, args)
    \/ \E args \in CallArgs : ApplyTypesCall(args)
    \/ ApplyStringTypesCall
    \/ \E atName \in Range(attrs) : GetAttributeInfoCall(atName)

Spec == Init /\ [][Next]_vars

---------------------------------------------------------------------------
(* Claims about the casting pass and the table's storage *)

PyType(v) ==
    CASE v.k = "int" -> "integer" [] v.k = "float" -> "float"
      [] v.k = "str" -> "string" [] OTHER -> "none"

Resolves(atName) == __getAttributeInfo(atName, dApi).ok
StructuralError == \E i \in 1..Len(attrs) : ~Resolves(attrs[i])
CastingPassReturned == ret.op \in {"init", "applyTypes"} /\ ~ret.raised

\* the cell of row r, column i is of the column's type or is its substitute
CellTyped(r, i) ==
    LET info == __getAttributeInfo(attrs[i], dApi)
    IN  \/ PyType(data[r][i]) = info.dataType
        \/ data[r][i] = MissingValue(info.dataType, info.isMandatory, ret.args)

\* C1: after a casting pass that returned True, every cell of every column
\* whose type the dictionary resolves is a value of that type or equals the
\* column's missing substitute.
C1_TypedOrSubstitute ==
    (CastingPassReturned /\ ret.ok) =>
        \A i \in 1..Len(attrs) : \A r \in 1..Len(data) :
            Resolves(attrs[i]) => CellTyped(r, i)

\* C8: applyTypes returns True exactly when no structural error occurred; with
\* a structural error it raises if raiseExceptions is set and returns False
\* otherwise.
C8_ReturnTracksStructure ==
    (ret.op \in {"init", "applyTypes"}) =>
        IF StructuralError
        THEN (raiseExceptions => ret.raised)
                /\ (~raiseExceptions => ~ret.raised /\ ~ret.ok)
        ELSE ~ret.raised /\ ret.ok

\* C4: a second applyStringTypes right after a first leaves every cell and
\* every recorded column type as the first left them.
C4_StringTypesIdempotent ==
    [][(ret'.op = "applyStringTypes" /\ ret'.again)
            => (data' = data /\ attributeTypeD' = attributeTypeD)]_vars

\* the second application ran on a table the first had changed from typed
\* values and substitutes to text
C4_Witness ==
    /\ ret.op = "applyStringTypes" /\ ret.again /\ ret.ok
    /\ copyInputData /\ data # src
    /\ \E r \in 1..Len(data) : \E i \in 1..Len(attrs) :
            data[r][i].k = "str" /\ ~IsMissing(data[r][i]) /\ src[r][i] = None

\* C5: with copyInputData = True no step (construction, applyTypes,
\* applyStringTypes) changes a cell of the source table.
C5_SourceUntouched ==
    [][(phase' # "new" /\ copyInputData') => src' = src]_vars

\* a copy that a pass changed while the source kept its raw cells
C5_Witness ==
    /\ phase = "typed" /\ copyInputData
    /\ ret.op \in {"applyTypes", "applyStringTypes"}
    /\ \E r \in 1..Len(data) : \E i \in 1..Len(attrs) : data[r][i] # src[r][i]

AllRecordedString ==
    attributeTypeD = {<<attrs[i], "string">> : i \in 1..Len(attrs)}

\* C9: once every column's recorded type is String (applyStringTypes
\* succeeded), getAttributeInfo reports string for every column.
C9_RecordedTypeReported ==
    (ret.op = "getAttributeInfo" /\ AllRecordedString) =>
        (ret.info.known /\ ret.info.dataType = "string")

---------------------------------------------------------------------------
(* Two typed tables built over one dictionary, and their comparison *)

CmpSchemas ==
    {<< <<"x">>, <<"x">> >>,
     << <<"name", "x">>, <<"x", "name">> >>,
     << <<"id", "y", "name">>, <<"y", "n", "id">> >>}

CmpArgs ==
    {CastArgs(FALSE, TRUE, None, None, None),
     CastArgs(FALSE, FALSE, None, None, None),
     CastArgs(FALSE, FALSE, T_NA, IntV(0 - 1), FloatV(0 - Scale))}

InitCmp ==
    \E sp \in CmpSchemas, raiseFlag \in BOOLEAN, args \in CmpArgs :
      \E rawA \in RawTables(sp[1], CmpCellsA, MaxCmpRows),
         rawB \in RawTables(sp[2], CmpCellsB, MaxCmpRows) :
        LET a == applyTypes(sp[1], rawA, {}, Dictionary, args)
            b == applyTypes(sp[2], rawB, {}, Dictionary, args)
        IN  /\ attrs = sp[1]
            /\ src = rawA
            /\ data = a.data
            /\ dApi = Dictionary
            /\ copyInputData = TRUE
            /\ raiseExceptions = raiseFlag
            /\ attributeTypeD = a.typeD
            /\ phase = "typed"
            /\ other = [attrs |-> sp[2], data |-> b.data]
            /\ ret = [NoRet EXCEPT !.op = "init", !.ok = a.ok, !.args = args]

CmpCall(ignoreOrder, comList) ==
    /\ phase = "typed"
    /\ LET res == cmpAttributeValues(attrs, data, dApi, raiseExceptions,
                                     other.attrs, other.data, ignoreOrder, comList)
       IN  ret' = [NoRet EXCEPT !.op = "cmp", !.raised = res.raised,
                                !.err = res.err, !.rL = res.rL,
                                !.ignoreOrder = ignoreOrder, !.comList = comList]
    /\ UNCHANGED <<attrs, src, data, dApi, copyInputData, raiseExceptions,
                   attributeTypeD, phase, other>>

NextCmp ==
    \E ignoreOrder \in BOOLEAN, comList \in ComLists(attrs, other.attrs) :
        CmpCall(ignoreOrder, comList)

SpecCmp == InitCmp /\ [][NextCmp]_vars

---------------------------------------------------------------------------
(* Claims about the comparison *)

Common == Range(attrs) \cap Range(other.attrs)
FlagsOf(rL, atName) == {rL[k][2] : k \in {j \in 1..Len(rL) : rL[j][1] = atName}}
TimesIn(rL, atName) == Cardinality({j \in 1..Len(rL) : rL[j][1] = atName})
IsFloatColumn(atName) == __getAttributeInfo(atName, dApi).dataType = "float"

\* B.cmpAttributeValues(A), for a call A.cmpAttributeValues(B)
Reversed(comList) ==
    cmpAttributeValues(other.attrs, other.data, dApi, raiseExceptions,
                       attrs, data, ret.ignoreOrder, comList)

\* C3: with different row counts the call returns, without an error, every
\* common column exactly once with the flag False, and the reversed call
\* reports the same flag for every common column.
C3_LengthMismatch ==
    (ret.op = "cmp" /\ Len(data) # Len(other.data)) =>
        /\ ~ret.raised /\ ~ret.err
        /\ Len(ret.rL) = Cardinality(Common)
        /\ \A c \in Common : TimesIn(ret.rL, c) = 1 /\ FlagsOf(ret.rL, c) = {FALSE}
        /\ \A l \in ComLists(other.attrs, attrs) : \A c \in Common :
                ~Reversed(l).err /\ FlagsOf(Reversed(l).rL, c) = FlagsOf(ret.rL, c)

\* tables of different row counts, with cells that are equal where both have one
C3_Witness ==
    /\ ret.op = "cmp" /\ Len(data) # Len(other.data)
    /\ Len(data) > 0 /\ Len(other.data) > 0
    /\ Cardinality(Common) > 1
    /\ \A c \in Common :
            PyEq(getAttributeValueList(attrs, data, c)[1],
                 getAttributeValueList(other.attrs, other.data, c)[1])

\* the value lists of a column as the float loop pairs them
PairedA(atName) ==
    LET aVL == getAttributeValueList(attrs, data, atName)
    IN  IF ret.ignoreOrder /\ Sortable(aVL) THEN sorted(aVL) ELSE aVL
PairedB(atName) ==
    LET bVL == getAttributeValueList(other.attrs, other.data, atName)
    IN  IF ret.ignoreOrder /\ Sortable(bVL) THEN sorted(bVL) ELSE bVL
SortsFine(atName) ==
    ret.ignoreOrder =>
        /\ Sortable(getAttributeValueList(attrs, data, atName))
        /\ Sortable(getAttributeValueList(other.attrs, other.data, atName))
PairsComparable(atName) ==
    /\ SortsFine(atName)
    /\ \A i \in 1..Len(data) : __isClose(PairedA(atName)[i], PairedB(atName)[i]).ok
AllClose(atName) ==
    \A i \in 1..Len(data) : __isClose(PairedA(atName)[i], PairedB(atName)[i]).v

MeetsIncomparable(atName) ==
    /\ SortsFine(atName)
    /\ \E i \in 1..Len(data) :
        /\ ~__isClose(PairedA(atName)[i], PairedB(atName)[i]).ok
        /\ \A j \in 1..(i - 1) :
                LET c == __isClose(PairedA(atName)[j], PairedB(atName)[j])
                IN  c.ok /\ c.v

\* C6: when the comparison of a Float column meets a pair the closeness
\* predicate cannot compare, the call fails explicitly (it raises): it never
\* returns a list, with or without the column.
C6_IncomparableRaises ==
    (ret.op = "cmp" /\ Len(data) = Len(other.data)
        /\ \E c \in Common : IsFloatColumn(c) /\ MeetsIncomparable(c)) => ret.raised

\* C7: with zero rows in both tables the call ends without an error and
\* reports every shared Float column, first or not.
C7_EmptyFloatDefined ==
    (ret.op = "cmp" /\ Len(data) = 0 /\ Len(other.data) = 0) =>
        /\ ~ret.err
        /\ \A c \in Common : IsFloatColumn(c) => TimesIn(ret.rL, c) = 1

---------------------------------------------------------------------------
(* The column classification over all answers of a dictionary *)

InfoNames == {"id", "label", "temperature", "pH", "point_symmetry"}
TypeCodes == {Chars_int, Chars_positive_int, Chars_float, Chars_code, Chars_point_group}
Primitives == {"numb", "char", "uchar"}
MandatoryAnswers == {"yes", "no", "implicit", "implicit-ordinal", ""}

InitInfo ==
    \E atName \in InfoNames, tc \in TypeCodes, pr \in Primitives, mc \in MandatoryAnswers :
        /\ attrs = <<atName>>
        /\ src = <<>>
        /\ data = <<>>
        /\ dApi = [a \in {atName} |-> Answer(tc, pr, mc)]
        /\ copyInputData = TRUE
        /\ raiseExceptions = TRUE
        /\ attributeTypeD = applyTypes(attrs, <<>>, {}, dApi, NoArgs).typeD
        /\ phase = "typed"
        /\ other = NoOther
        /\ ret = [NoRet EXCEPT !.op = "init", !.ok = TRUE]

NextInfo == \E atName \in Range(attrs) : GetAttributeInfoCall(atName)

SpecInfo == InitInfo /\ [][NextInfo]_vars

\* the type code holds the letters i, n, t in a row: int, positive_int, ..., and
\* also codes such as point_group
NamesInt(typeCode) ==
    \E i \in 1..Len(typeCode) :
        /\ i + 2 <= Len(typeCode)
        /\ typeCode[i] = "i" /\ typeCode[i + 1] = "n" /\ typeCode[i + 2] = "t"

===========================================================================
